---- MODULE Spec2Model ----
(***************************************************************************)
(* Plugin host startup (src/vs/workbench/node/pluginHostMain.ts):          *)
(* PluginHostMain.start -> readPlugins -> scanPlugins (three concurrent    *)
(* scans, joined and merged) -> registerPlugins / registrationDone ->      *)
(* handleEagerPlugins ('*' and the workspaceContains probes) ->            *)
(* handlePluginTests.                                                      *)
(*                                                                         *)
(* Every promise continuation of the source is one action.  Strings are    *)
(* TLA+ strings; the regular expression test and substr of lines 195-196   *)
(* are computed on them character by character.  A JavaScript object used  *)
(* as a map is a sequence of entries in key insertion order (the order of  *)
(* Object.keys), without the keys an object inherits from its prototype.   *)
(***************************************************************************)
EXTENDS Integers, Sequences, FiniteSets, TLC

VARIABLES
    pc,             \* position of the promise chain of readPlugins
    env,            \* contextService.getConfiguration().env, as far as read
    scans,          \* the three scan promises of scanPlugins
    messages,       \* the PluginsMessageCollector's messages
    extensions,     \* the value the scanPlugins promise chain carries
    registered,     \* the lists PluginsRegistry.registerPlugins was called with
    doneCalls,      \* the message lists registrationDone was called with
    workspace,      \* what contextService.getWorkspace() returned
    probes,         \* the pfs.fileExistsWithResult calls, in call order
    activations,    \* the pluginService.activateByEvent calls, in call order
    consoleErrors,  \* number of console.error calls
    startResult,    \* the promise start() returned
    exits,          \* the exit codes gracefulExit scheduled, in call order
    testRunner,     \* the test runner: how require ended, what it called back
    log             \* the calls made to the registry, the plugin service and pfs,
                    \* in call order

vars == <<pc, env, scans, messages, extensions, registered, doneCalls,
          workspace, probes, activations, consoleErrors, startResult, exits,
          testRunner, log>>

-----------------------------------------------------------------------------
(* Bounds and input domains *)

\* longest list a scan resolves with under Spec
MaxScan == 1
\* longest list a scan resolves with under SpecMerge
MaxLen == 2

Sources == <<"builtin", "user", "development">>
SourceSet == {"builtin", "user", "development"}

Digit == <<"1", "2", "3", "4", "5", "6", "7", "8", "9">>

\* the folder the i-th descriptor of a source was read from
PathOf(src, i) == src \o "/" \o Digit[i]

HasEvents(desc) == "activationEvents" \in DOMAIN desc

\* a manifest read at a folder: the descriptor is the manifest plus the folder
Describe(manifest, path) ==
    IF HasEvents(manifest)
    THEN [id |-> manifest.id, extensionFolderPath |-> path,
          activationEvents |-> manifest.activationEvents]
    ELSE [id |-> manifest.id, extensionFolderPath |-> path]

\* the lists of at most max descriptors a scan of src can resolve with
ScanLists(src, manifests, max) ==
    UNION { { [i \in 1..n |-> Describe(f[i], PathOf(src, i))] :
                f \in [1..n -> manifests] } : n \in 0..max }

\* manifests of the full startup, by the source whose folders hold them: the
\* event lists of the spec's scenarios
BuiltinManifests ==
    { [id |-> "A", activationEvents |-> <<"workspaceContains:x">>],
      [id |-> "B", activationEvents |->
          <<"workspaceContains:y", "onLanguage:go", "workspaceContains:x",
            "workspaceContains:y">>],
      [id |-> "C", activationEvents |->
          <<"workspaceContains:", "WorkspaceContains:z">>] }

UserManifests ==
    { [id |-> "B"],
      [id |-> "A", activationEvents |-> <<"workspaceContains:y">>],
      [id |-> "C", activationEvents |-> <<>>] }

DevelopmentManifests ==
    { [id |-> "A", activationEvents |-> <<"*">>],
      [id |-> "B", activationEvents |->
          <<"workspaceContains:x", "workspaceContains:x">>],
      [id |-> "C", activationEvents |-> <<"onLanguage:go">>] }

Manifests(src) ==
    CASE src = "builtin" -> BuiltinManifests
      [] src = "user" -> UserManifests
      [] OTHER -> DevelopmentManifests

\* manifests of the merge alone: three ids
MergeManifests ==
    { [id |-> "A", activationEvents |-> <<"workspaceContains:x">>],
      [id |-> "B", activationEvents |-> <<>>],
      [id |-> "C", activationEvents |-> <<"*">>] }

-----------------------------------------------------------------------------
(* The map of scanPlugins: resultingPluginsMap *)

HasOwnProperty(map, id) == \E i \in 1..Len(map) : map[i].id = id

Get(map, id) == map[CHOOSE i \in 1..Len(map) : map[i].id = id]

\* a faulty variant: an id already in the map keeps its first descriptor
PutKeepFirst(map, plugin) ==
    IF HasOwnProperty(map, plugin.id) THEN map ELSE Append(map, plugin)

\* a faulty variant: every assignment adds an entry
PutAppend(map, plugin) == Append(map, plugin)

\* a faulty variant: the descriptor assigned to a held id takes over the
\* activation events of the descriptor it replaces
PutInherit(map, plugin) ==
    IF HasOwnProperty(map, plugin.id)
    THEN [i \in 1..Len(map) |->
             IF map[i].id = plugin.id
             THEN IF HasEvents(map[i])
                  THEN [id |-> plugin.id,
                        extensionFolderPath |-> plugin.extensionFolderPath,
                        activationEvents |->
                            (IF HasEvents(plugin)
                             THEN plugin.activationEvents ELSE <<>>)
                            \o map[i].activationEvents]
                  ELSE plugin
             ELSE map[i]]
    ELSE Append(map, plugin)

\* map[plugin.id] = plugin
Put(map, plugin) ==
    IF HasOwnProperty(map, plugin.id)
    THEN [i \in 1..Len(map) |->
             IF map[i].id = plugin.id THEN plugin ELSE map[i]]
    ELSE Append(map, plugin)

Message(type, source, message) ==
    [type |-> type, source |-> source, message |-> message]

Overwriting(old, new) ==
    Message("warn", "", "Overwriting extension " \o old.extensionFolderPath
                          \o " with " \o new.extensionFolderPath)

Loading(plugin) ==
    Message("info", "", "Loading development extension at "
                          \o plugin.extensionFolderPath)

\* the body of builtinPlugins.forEach
InsertBuiltin(st, plugin) ==
    [map |-> Put(st.map, plugin), msgs |-> st.msgs]

\* a faulty variant: the warning is left out
InsertUserSilent(st, plugin) ==
    [map |-> Put(st.map, plugin), msgs |-> st.msgs]

\* the body of userPlugins.forEach
InsertUser(st, plugin) ==
    [map  |-> Put(st.map, plugin),
     msgs |-> IF HasOwnProperty(st.map, plugin.id)
              THEN Append(st.msgs, Overwriting(Get(st.map, plugin.id), plugin))
              ELSE st.msgs]

\* a faulty variant: the warning is recorded before the information
InsertDevWarningFirst(st, plugin) ==
    [map  |-> Put(st.map, plugin),
     msgs |-> IF HasOwnProperty(st.map, plugin.id)
              THEN st.msgs \o <<Overwriting(Get(st.map, plugin.id), plugin),
                                Loading(plugin)>>
              ELSE Append(st.msgs, Loading(plugin))]

\* the body of extensionDevPlugins.forEach
InsertDev(st, plugin) ==
    [map  |-> Put(st.map, plugin),
     msgs |-> IF HasOwnProperty(st.map, plugin.id)
              THEN st.msgs \o <<Loading(plugin),
                                Overwriting(Get(st.map, plugin.id), plugin)>>
              ELSE Append(st.msgs, Loading(plugin))]

Insert(src, st, plugin) ==
    CASE src = "builtin" -> InsertBuiltin(st, plugin)
      [] src = "user" -> InsertUser(st, plugin)
      [] OTHER -> InsertDev(st, plugin)

RECURSIVE ForEach(_, _, _)
ForEach(src, list, st) ==
    IF list = <<>> THEN st
    ELSE ForEach(src, Tail(list), Insert(src, st, Head(list)))

\* the callback of TPromise.join in scanPlugins: the merged list and the
\* messages it adds to the collector
MergePlugins(builtinPlugins, userPlugins, extensionDevPlugins) ==
    ForEach("development", extensionDevPlugins,
        ForEach("user", userPlugins,
            ForEach("builtin", builtinPlugins, [map |-> <<>>, msgs |-> <<>>])))

-----------------------------------------------------------------------------
(* The file names of handleWorkspaceContainsEagerPlugins: desiredFilesMap *)

WorkspaceContainsPrefix == "workspaceContains:"

\* /^workspaceContains:/.test(event)
IsWorkspaceContains(event) ==
    /\ Len(event) >= Len(WorkspaceContainsPrefix)
    /\ SubSeq(event, 1, Len(WorkspaceContainsPrefix)) = WorkspaceContainsPrefix

\* event.substr('workspaceContains:'.length)
FileNameOf(event) == SubSeq(event, Len(WorkspaceContainsPrefix) + 1, Len(event))

Range(seq) == { seq[i] : i \in 1..Len(seq) }

\* a faulty variant: every assignment adds a key
SetKeyAppend(keys, fileName) == Append(keys, fileName)

\* desiredFilesMap[fileName] = true, as the list of the map's keys
SetKey(keys, fileName) ==
    IF fileName \in Range(keys) THEN keys ELSE Append(keys, fileName)

\* a faulty variant: the prefix is looked for without regard to case of its first letter
CollectsEventAnyCase(event) ==
    \/ IsWorkspaceContains(event)
    \/ /\ Len(event) >= Len(WorkspaceContainsPrefix)
       /\ SubSeq(event, 2, Len(WorkspaceContainsPrefix))
            = SubSeq(WorkspaceContainsPrefix, 2, Len(WorkspaceContainsPrefix))

\* the condition of line 195
CollectsEvent(event) == IsWorkspaceContains(event)

RECURSIVE EventsLoop(_, _)
\* the for loop over desc.activationEvents
EventsLoop(activationEvents, keys) ==
    IF activationEvents = <<>> THEN keys
    ELSE EventsLoop(Tail(activationEvents),
            IF CollectsEvent(Head(activationEvents))
            THEN SetKey(keys, FileNameOf(Head(activationEvents)))
            ELSE keys)

RECURSIVE DescriptionsLoop(_, _)
\* getAllPluginDescriptions().forEach
DescriptionsLoop(descs, keys) ==
    IF descs = <<>> THEN keys
    ELSE DescriptionsLoop(Tail(descs),
            IF ~HasEvents(Head(descs)) THEN keys
            ELSE EventsLoop(Head(descs).activationEvents, keys))

\* Object.keys(desiredFilesMap)
DesiredFiles(descs) == DescriptionsLoop(descs, <<>>)

\* what pfs.fileExistsWithResult(path, fileName) resolves with: <<fileName>>
\* when the path exists, <<>> (null) when it does not
ProbeResult(probe) == IF probe.exists THEN <<probe.fileName>> ELSE <<>>

\* JavaScript's truthiness of a string or null
Truthy(value) == value # <<>> /\ value[1] # ""

\* the negation of the early return of line 208
DispatchesResult(value) == Truthy(value)

Activation(event) == [event |-> event, status |-> "pending"]

RECURSIVE ResultsLoop(_, _)
\* fileNames.forEach of line 207: the activateByEvent calls it makes
ResultsLoop(results, calls) ==
    IF results = <<>> THEN calls
    ELSE ResultsLoop(Tail(results),
            IF DispatchesResult(Head(results))
            THEN Append(calls, Activation(WorkspaceContainsPrefix \o Head(results)[1]))
            ELSE calls)

\* PluginsRegistry.getAllPluginDescriptions()
RECURSIVE Concat(_)
Concat(lists) == IF lists = <<>> THEN <<>> ELSE Head(lists) \o Concat(Tail(lists))

GetAllPluginDescriptions == Concat(registered)

-----------------------------------------------------------------------------
(* The startup of the plugin host *)

Pending == [status |-> "pending", plugins |-> <<>>]
Resolved(list) == [status |-> "resolved", plugins |-> list]
Rejected == [status |-> "rejected", plugins |-> <<>>]

Settled(scan) == scan.status \in {"resolved", "rejected"}

Init ==
    /\ pc = "start"
    /\ env = [userPluginsHome |-> "unread", pluginDevelopmentPath |-> "unread",
              pluginTestsPath |-> "unread"]
    /\ scans = [src \in SourceSet |-> [status |-> "idle", plugins |-> <<>>]]
    /\ messages = <<>>
    /\ extensions = <<>>
    /\ registered = <<>>
    /\ doneCalls = <<>>
    /\ workspace = "unread"
    /\ probes = <<>>
    /\ activations = <<>>
    /\ consoleErrors = 0
    /\ startResult = "pending"
    /\ exits = <<>>
    /\ testRunner = [loaded |-> "unread", calls |-> <<>>]
    /\ log = <<>>

\* start, readPlugins up to its call of scanPlugins, and the three scans
\* scanPlugins starts: a scan without a path is TPromise.as([])
Start ==
    /\ pc = "start"
    /\ \E userPluginsHome \in {"set", "unset"},
          pluginDevelopmentPath \in {"set", "unset"} :
        /\ env' = [env EXCEPT !.userPluginsHome = userPluginsHome,
                              !.pluginDevelopmentPath = pluginDevelopmentPath]
        /\ scans' = [src \in SourceSet |->
                        CASE src = "builtin" -> Pending
                          [] src = "user" ->
                                IF userPluginsHome = "set" THEN Pending
                                ELSE Resolved(<<>>)
                          [] OTHER ->
                                IF pluginDevelopmentPath = "set" THEN Pending
                                ELSE Resolved(<<>>)]
    /\ pc' = "scanning"
    /\ UNCHANGED <<messages, extensions, registered, doneCalls, workspace,
                   probes, activations, consoleErrors, startResult, exits,
                   testRunner, log>>

\* a scan of PluginScanner resolves with a list of descriptors
ScanResolves ==
    /\ pc = "scanning"
    /\ \E src \in SourceSet :
        /\ scans[src].status = "pending"
        /\ \E list \in ScanLists(src, Manifests(src), MaxScan) :
              scans' = [scans EXCEPT ![src] = Resolved(list)]
    /\ UNCHANGED <<pc, env, messages, extensions, registered, doneCalls,
                   workspace, probes, activations, consoleErrors, startResult,
                   exits,
                   testRunner, log>>

\* a scan of PluginScanner rejects
ScanRejects ==
    /\ pc = "scanning"
    /\ \E src \in SourceSet :
        /\ scans[src].status = "pending"
        /\ scans' = [scans EXCEPT ![src] = Rejected]
    /\ UNCHANGED <<pc, env, messages, extensions, registered, doneCalls,
                   workspace, probes, activations, consoleErrors, startResult,
                   exits,
                   testRunner, log>>

AllSettled == \A src \in SourceSet : Settled(scans[src])

\* a faulty variant: the merge waits for the builtin scan alone
BuiltinResolved == scans["builtin"].status = "resolved"

AllResolved == \A src \in SourceSet : scans[src].status = "resolved"

\* the value scanPlugins resolves with and the collector after it
Merged ==
    MergePlugins(scans["builtin"].plugins, scans["user"].plugins,
                 scans["development"].plugins)

\* TPromise.join of the three scans completes with the three lists: the merge
JoinResolves ==
    /\ pc = "scanning"
    /\ AllResolved
    /\ extensions' = Merged.map
    /\ messages' = messages \o Merged.msgs
    /\ pc' = "register"
    /\ UNCHANGED <<env, scans, registered, doneCalls, workspace, probes,
                   activations, consoleErrors, startResult, exits,
                   testRunner, log>>

\* TPromise.join settles once all three scans have, with an error when one of
\* them rejected: the error handler of readPlugins
JoinRejects ==
    /\ pc = "scanning"
    /\ AllSettled
    /\ ~AllResolved
    /\ extensions' = <<>>
    /\ messages' = Append(messages, Message("error", "", "scan failed"))
    /\ pc' = "register"
    /\ UNCHANGED <<env, scans, registered, doneCalls, workspace, probes,
                   activations, consoleErrors, startResult, exits,
                   testRunner, log>>

\* a faulty variant: done is signalled before the plugins are registered
RegisterCallsDoneFirst == <<"registrationDone", "registerPlugins">>

\* the calls of lines 128 and 129
RegisterCalls == <<"registerPlugins", "registrationDone">>

\* Register & Signal done
Register ==
    /\ pc = "register"
    /\ registered' = Append(registered, extensions)
    /\ doneCalls' = Append(doneCalls, messages)
    /\ log' = log \o RegisterCalls
    /\ pc' = "eager"
    /\ UNCHANGED <<env, scans, messages, extensions, workspace, probes,
                   activations, consoleErrors, startResult, exits,
                   testRunner>>

Probe(fileName) == [fileName |-> fileName, status |-> "pending", exists |-> FALSE]

\* a faulty variant: the workspace is not looked at
HasFolderAlways(ws) == TRUE

\* the negation of the condition of line 178
HasFolder(ws) == ws = "folder"

ActivateCall(event) == "activateByEvent:" \o event
ProbeCall(fileName) == "fileExistsWithResult:" \o fileName

\* a faulty variant: the probes are issued before '*' is dispatched
EagerCallsProbesFirst(fileNames) ==
    [i \in 1..Len(fileNames) |-> ProbeCall(fileNames[i])] \o <<ActivateCall("*")>>

\* the calls of handleEagerPlugins: line 170, then those of line 204
EagerCalls(fileNames) ==
    <<ActivateCall("*")>> \o [i \in 1..Len(fileNames) |-> ProbeCall(fileNames[i])]

\* handleEagerPlugins and handleWorkspaceContainsEagerPlugins up to its join
HandleEagerPlugins ==
    /\ pc = "eager"
    /\ activations' = Append(activations, Activation("*"))
    /\ \E ws \in {"none", "noResource", "folder"} :
        /\ workspace' = ws
        /\ log' = log \o EagerCalls(IF HasFolder(ws)
                                    THEN DesiredFiles(GetAllPluginDescriptions)
                                    ELSE <<>>)
        /\ IF HasFolder(ws)
           THEN /\ probes' = [i \in 1..Len(DesiredFiles(GetAllPluginDescriptions)) |->
                                 Probe(DesiredFiles(GetAllPluginDescriptions)[i])]
                /\ pc' = "probing"
           ELSE /\ probes' = probes
                /\ pc' = "tests"
    /\ UNCHANGED <<env, scans, messages, extensions, registered, doneCalls,
                   consoleErrors, startResult, exits,
                   testRunner>>

\* a probe of pfs.fileExistsWithResult completes
ProbeCompletes ==
    /\ \E i \in 1..Len(probes), exists \in BOOLEAN :
        /\ probes[i].status = "pending"
        /\ probes' = [probes EXCEPT ![i] = [@ EXCEPT !.status = "done",
                                                     !.exists = exists]]
    /\ UNCHANGED <<pc, env, scans, messages, extensions, registered, doneCalls,
                   workspace, activations, consoleErrors, startResult, exits,
                   testRunner, log>>

\* a faulty variant: the first completed probe ends the join
SomeProbed == \E i \in 1..Len(probes) : probes[i].status = "done"

AllProbed == \A i \in 1..Len(probes) : probes[i].status = "done"

\* the callback of the join of the probes
DispatchWorkspaceContains ==
    /\ pc = "probing"
    /\ AllProbed
    /\ activations' =
          ResultsLoop([i \in 1..Len(probes) |-> ProbeResult(probes[i])], activations)
    /\ log' = log \o
          [i \in 1..(Len(activations') - Len(activations)) |->
              ActivateCall(activations'[Len(activations) + i].event)]
    /\ pc' = "tests"
    /\ UNCHANGED <<env, scans, messages, extensions, registered, doneCalls,
                   workspace, probes, consoleErrors, startResult, exits,
                   testRunner>>

\* a faulty variant: a failed activation is not caught and rejects start()
ActivationFailsStart(result) == "rejected"

\* the error handler of an activateByEvent call leaves start() as it is
ActivationFails(result) == result

\* an activateByEvent call completes, and console.error logs its failure
ActivationCompletes ==
    /\ \E i \in 1..Len(activations), ok \in BOOLEAN :
        /\ activations[i].status = "pending"
        /\ activations' = [activations EXCEPT
                              ![i].status = IF ok THEN "done" ELSE "failed"]
        /\ consoleErrors' = IF ok THEN consoleErrors ELSE consoleErrors + 1
        /\ startResult' = IF ok THEN startResult ELSE ActivationFails(startResult)
    /\ UNCHANGED <<pc, env, scans, messages, extensions, registered, doneCalls,
                   workspace, probes, exits,
                   testRunner, log>>

\* a faulty variant: the promise of handleEagerPlugins joins the activations
EagerPromiseJoinsActivations ==
    \A i \in 1..Len(activations) : activations[i].status # "pending"

\* the promise handleEagerPlugins returns is the one of the join of the
\* probes (or TPromise.as(null)): it has resolved once pc is "tests", whatever
\* the activateByEvent promises have done
EagerPromiseResolved == TRUE

\* handlePluginTests up to the call of the test runner
HandlePluginTests ==
    /\ pc = "tests"
    /\ EagerPromiseResolved
    /\ \E pluginTestsPath \in {"set", "unset"},
          required \in {"throws", "invalid", "valid"} :
        /\ env' = [env EXCEPT !.pluginTestsPath = pluginTestsPath]
        /\ IF pluginTestsPath = "unset" \/ env.pluginDevelopmentPath = "unset"
           THEN /\ startResult' = "resolved"
                /\ exits' = exits
                /\ testRunner' = testRunner
                /\ pc' = "done"
           ELSE IF required = "valid"
           THEN /\ startResult' = startResult
                /\ exits' = exits
                /\ testRunner' = [testRunner EXCEPT !.loaded = required]
                /\ pc' = "testing"
           ELSE /\ startResult' = "rejected"
                /\ exits' = Append(exits, 1)
                /\ testRunner' = [testRunner EXCEPT !.loaded = required]
                /\ pc' = "done"
    /\ UNCHANGED <<scans, messages, extensions, registered, doneCalls,
                   workspace, probes, activations, consoleErrors,
                   log>>

\* a faulty variant: an error of the runner counts as a failure
ExitCodeOfError(error, failures) == IF error \/ failures > 0 THEN 1 ELSE 0

\* failures && failures > 0 ? 1 : 0, with -1 for a failure count left undefined
ExitCode(error, failures) == IF failures > 0 THEN 1 ELSE 0

\* the callback the test runner is given
TestRunnerCallback ==
    /\ pc = "testing"
    /\ \E error \in BOOLEAN, failures \in {-1, 0, 1} :
        /\ startResult' = IF error THEN "rejected" ELSE "resolved"
        /\ exits' = Append(exits, ExitCode(error, failures))
        /\ testRunner' = [testRunner EXCEPT
              !.calls = Append(@, [error |-> error, failures |-> failures])]
    /\ pc' = "done"
    /\ UNCHANGED <<env, scans, messages, extensions, registered, doneCalls,
                   workspace, probes, activations, consoleErrors,
                   log>>

Next ==
    \/ Start
    \/ ScanResolves
    \/ ScanRejects
    \/ JoinResolves
    \/ JoinRejects
    \/ Register
    \/ HandleEagerPlugins
    \/ ProbeCompletes
    \/ DispatchWorkspaceContains
    \/ ActivationCompletes
    \/ HandlePluginTests
    \/ TestRunnerCallback

Spec == Init /\ [][Next]_vars

-----------------------------------------------------------------------------
(* The merge alone: the three scans have resolved with lists of MergeManifests *)

InitMerge ==
    /\ pc = "scanning"
    /\ env = [userPluginsHome |-> "set", pluginDevelopmentPath |-> "set",
              pluginTestsPath |-> "unread"]
    /\ \E builtinPlugins \in ScanLists("builtin", MergeManifests, MaxLen),
          userPlugins \in ScanLists("user", MergeManifests, MaxLen),
          developedPlugins \in ScanLists("development", MergeManifests, MaxLen) :
        scans = [src \in SourceSet |->
                    CASE src = "builtin" -> Resolved(builtinPlugins)
                      [] src = "user" -> Resolved(userPlugins)
                      [] OTHER -> Resolved(developedPlugins)]
    /\ messages = <<>>
    /\ extensions = <<>>
    /\ registered = <<>>
    /\ doneCalls = <<>>
    /\ workspace = "unread"
    /\ probes = <<>>
    /\ activations = <<>>
    /\ consoleErrors = 0
    /\ startResult = "pending"
    /\ exits = <<>>
    /\ testRunner = [loaded |-> "unread", calls |-> <<>>]
    /\ log = <<>>

NextMerge == JoinResolves \/ Register

SpecMerge == InitMerge /\ [][NextMerge]_vars

-----------------------------------------------------------------------------
(* What the claims speak of *)

BuiltinList == scans["builtin"].plugins
UserList == scans["user"].plugins
DevelopmentList == scans["development"].plugins

\* the three lists in the order the merge reads them
AllScanned == BuiltinList \o UserList \o DevelopmentList

IdsOf(list) == { list[i].id : i \in 1..Len(list) }

\* the last descriptor of a list with an id
LastWith(list, id) ==
    list[CHOOSE i \in 1..Len(list) :
            /\ list[i].id = id
            /\ \A j \in (i + 1)..Len(list) : list[j].id # id]

\* the scanPlugins promise has resolved with the merge of three resolved scans
MergeDone == pc \notin {"start", "scanning"} /\ AllResolved

WarningsOf(msgs) == SelectSeq(msgs, LAMBDA m : m.type = "warn")

\* C1 - Merge precedence: for every id of the three lists, the descriptor
\* scanPlugins returns for it is the last one with that id in the development
\* list if the id occurs there, else the last one in the user-installed list
\* if it occurs there, else the last one in the builtin list.
C1_MergePrecedence ==
    MergeDone =>
        \A id \in IdsOf(AllScanned) :
            \E i \in 1..Len(extensions) :
                /\ extensions[i].id = id
                /\ extensions[i] =
                      IF id \in IdsOf(DevelopmentList) THEN LastWith(DevelopmentList, id)
                      ELSE IF id \in IdsOf(UserList) THEN LastWith(UserList, id)
                      ELSE LastWith(BuiltinList, id)

\* an id of all three sources is merged, and an id that is twice in one list
C1_Witness ==
    /\ MergeDone
    /\ IdsOf(BuiltinList) \cap IdsOf(UserList) \cap IdsOf(DevelopmentList) # {}
    /\ Len(UserList) = 2 /\ UserList[1].id = UserList[2].id
    /\ IdsOf(BuiltinList) \ IdsOf(DevelopmentList) # {}

\* C3 - Merge totality: when all three scans succeed, the ids of the merged
\* list are the union of the ids of the three lists, the merged list holds
\* one descriptor per id, and it is no longer than the three lists together.
C3_MergeTotality ==
    MergeDone =>
        /\ IdsOf(extensions) = IdsOf(BuiltinList) \cup IdsOf(UserList)
                                  \cup IdsOf(DevelopmentList)
        /\ \A i, j \in 1..Len(extensions) :
              extensions[i].id = extensions[j].id => i = j
        /\ Len(extensions) <= Len(BuiltinList) + Len(UserList) + Len(DevelopmentList)

\* overlapping lists are merged into fewer descriptors than were scanned
C3_Witness ==
    /\ MergeDone
    /\ Len(extensions) = 2
    /\ Len(AllScanned) >= 5
    /\ IdsOf(BuiltinList) \cap IdsOf(DevelopmentList) # {}

\* the insertions of user-installed and development descriptors whose id is
\* already in the map: the positions k of AllScanned behind the builtin list
\* with an earlier descriptor of the same id
HitsExisting(k) ==
    /\ k > Len(BuiltinList)
    /\ \E j \in 1..(k - 1) : AllScanned[j].id = AllScanned[k].id

\* the descriptor the k-th insertion replaces: the latest earlier one of its id
Replaced(k) ==
    AllScanned[CHOOSE j \in 1..(k - 1) :
                  /\ AllScanned[j].id = AllScanned[k].id
                  /\ \A l \in (j + 1)..(k - 1) : AllScanned[l].id # AllScanned[k].id]

RECURSIVE OverwriteWarnings(_)
\* the warnings of the insertions k..Len(AllScanned), in order
OverwriteWarnings(k) ==
    IF k > Len(AllScanned) THEN <<>>
    ELSE (IF HitsExisting(k)
          THEN <<[type |-> "warn", source |-> "",
                  message |-> "Overwriting extension "
                                \o Replaced(k).extensionFolderPath \o " with "
                                \o AllScanned[k].extensionFolderPath]>>
          ELSE <<>>) \o OverwriteWarnings(k + 1)

\* C4 - Overwrite warnings: the warnings of the merge are, in order, one per
\* user-installed or development insertion whose id is already in the map,
\* each naming the folder of the replaced and of the replacing descriptor; a
\* builtin descriptor replacing a builtin one adds none, so there are as many
\* warnings as such insertions.
C4_OverwriteWarnings ==
    MergeDone =>
        /\ WarningsOf(messages) = OverwriteWarnings(1)
        /\ Len(WarningsOf(messages)) =
              Cardinality({ k \in 1..Len(AllScanned) : HitsExisting(k) })

\* a builtin replaces a builtin without a warning, a user-installed and a
\* development descriptor each replace one with a warning
C4_Witness ==
    /\ MergeDone
    /\ Len(BuiltinList) = 2 /\ BuiltinList[1].id = BuiltinList[2].id
    /\ Len(UserList) = 2 /\ UserList[2].id = BuiltinList[1].id
    /\ UserList[1].id # BuiltinList[1].id
    /\ Len(DevelopmentList) = 1 /\ DevelopmentList[1].id = UserList[1].id
    /\ Len(WarningsOf(messages)) = 2

-----------------------------------------------------------------------------
(* The full startup *)

\* the list a source contributes if a rejected scan counts as an empty list
Substituted(src) ==
    IF scans[src].status = "rejected" THEN <<>> ELSE scans[src].plugins

\* C2 - Scan failure is isolated per source: once the scans have settled, the
\* extensions that are registered are the merge of the three lists with an
\* empty list in the place of each rejected scan, and a rejected scan leaves
\* an error in the collector.
C2_ScanFailureIsolated ==
    pc \notin {"start", "scanning"} =>
        /\ extensions = MergePlugins(Substituted("builtin"), Substituted("user"),
                                     Substituted("development")).map
        /\ \A i \in 1..Len(registered) : registered[i] = extensions
        /\ ~AllResolved => \E i \in 1..Len(messages) : messages[i].type = "error"

\* the activation events the registered descriptors declare
RegistryEvents ==
    UNION { Range(desc.activationEvents) :
              desc \in { d \in Range(GetAllPluginDescriptions) : HasEvents(d) } }

\* what follows the first Len(WorkspaceContainsPrefix) characters of an event
Rest(event) == SubSeq(event, Len(WorkspaceContainsPrefix) + 1, Len(event))

\* the <name>s of the declared rules 'workspaceContains:<name>'
DeclaredNames ==
    { name \in { Rest(event) : event \in RegistryEvents } :
        (WorkspaceContainsPrefix \o name) \in RegistryEvents }

Dispatched == { activations[i].event : i \in 1..Len(activations) }

\* the number of activateByEvent calls with an event
Calls(event) ==
    Cardinality({ i \in 1..Len(activations) : activations[i].event = event })

\* handleEagerPlugins has resolved
EagerDone == pc \in {"tests", "testing", "done"}

\* C5 - Trigger dispatch soundness: every event other than '*' passed to
\* activateByEvent is 'workspaceContains:<name>' for a <name> whose rule a
\* registered descriptor declares and whose probe found the path to exist; no
\* event is dispatched for a name whose probe failed; no event is dispatched
\* twice.
C5_DispatchSoundness ==
    /\ \A i \in 1..Len(activations) :
          activations[i].event # "*" =>
              \E j \in 1..Len(probes) :
                  /\ activations[i].event = WorkspaceContainsPrefix \o probes[j].fileName
                  /\ activations[i].event \in RegistryEvents
                  /\ probes[j].status = "done"
                  /\ probes[j].exists
    /\ \A j \in 1..Len(probes) :
          (probes[j].status = "done" /\ ~probes[j].exists) =>
              (WorkspaceContainsPrefix \o probes[j].fileName) \notin Dispatched
    /\ \A event \in Dispatched : Calls(event) = 1

\* y exists and x does not, two descriptors declare y: only y is dispatched,
\* and once
C5_Witness ==
    /\ pc = "done"
    /\ Len(GetAllPluginDescriptions) = 2
    /\ \A i \in 1..Len(GetAllPluginDescriptions) :
          /\ HasEvents(GetAllPluginDescriptions[i])
          /\ "workspaceContains:y" \in Range(GetAllPluginDescriptions[i].activationEvents)
    /\ \E j, k \in 1..Len(probes) :
          /\ probes[j].fileName = "y" /\ probes[j].exists
          /\ probes[k].fileName = "x" /\ ~probes[k].exists
    /\ Dispatched = {"*", "workspaceContains:y"}

\* C6 - Trigger dispatch completeness: with a workspace folder, once the
\* probes are joined and their results handled, every name whose probe found
\* the path to exist has had 'workspaceContains:<name>' dispatched exactly
\* once, the empty name of the rule 'workspaceContains:' included.
C6_DispatchCompleteness ==
    (EagerDone /\ workspace = "folder") =>
        \A j \in 1..Len(probes) :
            probes[j].exists =>
                Calls(WorkspaceContainsPrefix \o probes[j].fileName) = 1

\* C7 - Probe deduplication: every probe is for the <name> of a declared rule
\* with the exact prefix 'workspaceContains:', no name is probed twice, and
\* with a workspace folder every such name is probed: one probe per distinct
\* name, none for other events.
C7_ProbeDeduplication ==
    /\ \A j \in 1..Len(probes) : probes[j].fileName \in DeclaredNames
    /\ \A j, k \in 1..Len(probes) :
          probes[j].fileName = probes[k].fileName => j = k
    /\ workspace = "folder" =>
          { probes[j].fileName : j \in 1..Len(probes) } = DeclaredNames

\* y is declared twice by one descriptor and once by another, among events
\* without the prefix: it is probed once
C7_Witness ==
    /\ workspace = "folder"
    /\ \E i, k \in 1..Len(GetAllPluginDescriptions) :
          /\ i # k
          /\ HasEvents(GetAllPluginDescriptions[i])
          /\ HasEvents(GetAllPluginDescriptions[k])
          /\ GetAllPluginDescriptions[i].activationEvents =
                <<"workspaceContains:y", "onLanguage:go", "workspaceContains:x",
                  "workspaceContains:y">>
          /\ GetAllPluginDescriptions[k].activationEvents = <<"workspaceContains:y">>
    /\ Len(probes) = 2

\* C8 - No-workspace behaviour: when getWorkspace() returns no workspace or
\* one without a resource, no probe is issued and the only activateByEvent
\* call is the one for '*'.
C8_NoWorkspace ==
    workspace \in {"none", "noResource"} =>
        /\ probes = <<>>
        /\ Len(activations) = 1
        /\ activations[1].event = "*"

\* the start is over without a workspace although rules are declared
C8_Witness ==
    /\ pc = "done"
    /\ workspace = "noResource"
    /\ "x" \in DeclaredNames

FailedActivations == { i \in 1..Len(activations) : activations[i].status = "failed" }

\* the steps of the promise chain of start() and of the scans and probes it
\* waits for
ChainNext ==
    \/ Start
    \/ ScanResolves
    \/ ScanRejects
    \/ JoinResolves
    \/ JoinRejects
    \/ Register
    \/ HandleEagerPlugins
    \/ ProbeCompletes
    \/ DispatchWorkspaceContains
    \/ HandlePluginTests
    \/ TestRunnerCallback

\* C9 - Activation failure isolation: every failed activateByEvent call is
\* logged and nothing more: whatever calls have failed, once eager handling
\* has resolved '*' and the event of every probe with a result that counts
\* have been dispatched, start() is rejected by the test step alone, and
\* the chain of start() can take its next step until it is done.
C9_ActivationFailureIsolation ==
    /\ consoleErrors = Cardinality(FailedActivations)
    /\ EagerDone =>
          Dispatched = {"*"} \cup
              { WorkspaceContainsPrefix \o probes[j].fileName :
                  j \in { k \in 1..Len(probes) :
                            probes[k].exists /\ probes[k].fileName # "" } }
    /\ startResult = "rejected" => (pc = "done" /\ exits # <<>>)
    /\ (pc # "done" /\ FailedActivations # {}) => ENABLED ChainNext

\* '*' failed before the probes were joined, the rest was dispatched and
\* start() resolved
C9_Witness ==
    /\ pc = "done"
    /\ startResult = "resolved"
    /\ activations[1].status = "failed"
    /\ Len(activations) = 3
    /\ activations[2].status = "failed"
    /\ activations[3].status = "done"

ScenarioBuiltinA ==
    [id |-> "A", extensionFolderPath |-> PathOf("builtin", 1),
     activationEvents |-> <<"workspaceContains:x">>]
ScenarioUserB == [id |-> "B", extensionFolderPath |-> PathOf("user", 1)]
ScenarioDevelopmentA ==
    [id |-> "A", extensionFolderPath |-> PathOf("development", 1),
     activationEvents |-> <<"*">>]

\* builtin=[A declaring 'workspaceContains:x'], user=[B declaring no events],
\* development=[A declaring '*'], a workspace folder in which x exists, and
\* eager handling has resolved
Scenario ==
    /\ EagerDone
    /\ AllResolved
    /\ BuiltinList = <<ScenarioBuiltinA>>
    /\ UserList = <<ScenarioUserB>>
    /\ DevelopmentList = <<ScenarioDevelopmentA>>
    /\ workspace = "folder"
    /\ \A j \in 1..Len(probes) : probes[j].fileName = "x" => probes[j].exists

\* C10 as stated - End-to-end scenario: the registry is {A: the development
\* descriptor, B}, the merge records exactly one warning, for overwriting A,
\* and the events dispatched are '*' and 'workspaceContains:x'.
C10_ScenarioAsStated ==
    Scenario =>
        /\ Range(GetAllPluginDescriptions) = {ScenarioDevelopmentA, ScenarioUserB}
        /\ WarningsOf(messages) = <<Overwriting(ScenarioBuiltinA, ScenarioDevelopmentA)>>
        /\ Dispatched = {"*", "workspaceContains:x"}

\* C10 - End-to-end scenario, amended: the registry is {A: the development
\* descriptor, B}, the merge diagnostics are the 'Loading development
\* extension' information and one warning for overwriting A, no probe is
\* issued and the only event dispatched is '*': the rule of the replaced
\* builtin A is gone with it.
C10_Scenario ==
    Scenario =>
        /\ GetAllPluginDescriptions = <<ScenarioDevelopmentA, ScenarioUserB>>
        /\ messages = <<Loading(ScenarioDevelopmentA),
                        Overwriting(ScenarioBuiltinA, ScenarioDevelopmentA)>>
        /\ probes = <<>>
        /\ Len(activations) = 1
        /\ activations[1].event = "*"

\* the scenario has run to the end of start()
C10_Witness == Scenario /\ pc = "done" /\ startResult = "resolved"

-----------------------------------------------------------------------------
(* The order of the merge's diagnostics *)

\* the k-th insertion is one of a development descriptor
IsDevelopment(k) == k > Len(BuiltinList) + Len(UserList)

RECURSIVE MergeDiagnostics(_)
\* the diagnostics of the insertions k..Len(AllScanned), in order: none for
\* a builtin descriptor, the warning for a user-installed one that replaces
\* an entry, the information and then the warning for a development one
MergeDiagnostics(k) ==
    IF k > Len(AllScanned) THEN <<>>
    ELSE (IF IsDevelopment(k)
          THEN <<[type |-> "info", source |-> "",
                  message |-> "Loading development extension at "
                                \o AllScanned[k].extensionFolderPath]>>
          ELSE <<>>)
         \o (IF HitsExisting(k)
             THEN <<[type |-> "warn", source |-> "",
                     message |-> "Overwriting extension "
                                   \o Replaced(k).extensionFolderPath \o " with "
                                   \o AllScanned[k].extensionFolderPath]>>
             ELSE <<>>)
         \o MergeDiagnostics(k + 1)

\* C12 - Diagnostic order: the diagnostics of the merge are those of the
\* user-installed descriptors in list order followed by those of the
\* development descriptors in list order; every development descriptor has
\* its 'Loading development extension at <path>' information, and the warning
\* of one that replaces an entry comes right after its information.
C12_DiagnosticOrder ==
    MergeDone =>
        /\ messages = MergeDiagnostics(1)
        /\ Len(SelectSeq(messages, LAMBDA m : m.type = "info")) = Len(DevelopmentList)

\* a user-installed descriptor replaces a builtin one, the first development
\* descriptor replaces nothing, the second replaces the first
C12_Witness ==
    /\ MergeDone
    /\ Len(WarningsOf(messages)) = 2
    /\ Len(messages) = 4
    /\ messages[1].type = "warn"
    /\ messages[2].type = "info"
    /\ messages[3].type = "info"
    /\ messages[4].type = "warn"

-----------------------------------------------------------------------------
(* The order of the calls of a start *)

LogCount(entry) == Cardinality({ i \in 1..Len(log) : log[i] = entry })

StartsWith(string, prefix) ==
    /\ Len(string) >= Len(prefix)
    /\ SubSeq(string, 1, Len(prefix)) = prefix

IsProbeCall(entry) == StartsWith(entry, "fileExistsWithResult:")
IsActivateCall(entry) == StartsWith(entry, "activateByEvent:")

\* handleEagerPlugins has been called
EagerCalled == pc \in {"probing", "tests", "testing", "done"}

\* C13 - The universal event: '*' is never dispatched twice, it has been
\* dispatched once handleEagerPlugins has been called, with or without a
\* workspace and with or without a failed scan, and every existence probe
\* and every other activateByEvent call comes after it.
C13_UniversalEventFirst ==
    /\ LogCount(ActivateCall("*")) <= 1
    /\ Calls("*") = LogCount(ActivateCall("*"))
    /\ Len(probes) = Cardinality({ i \in 1..Len(log) : IsProbeCall(log[i]) })
    /\ Len(activations) = Cardinality({ i \in 1..Len(log) : IsActivateCall(log[i]) })
    /\ EagerCalled => LogCount(ActivateCall("*")) = 1
    /\ \A i \in 1..Len(log) :
          (IsProbeCall(log[i]) \/ (IsActivateCall(log[i]) /\ log[i] # ActivateCall("*")))
              => \E j \in 1..(i - 1) : log[j] = ActivateCall("*")

\* a start with two probes and two 'workspaceContains:' events
C13_Witness ==
    /\ pc = "done"
    /\ Len(probes) = 2
    /\ Len(activations) = 3
    /\ LogCount(ActivateCall("*")) = 1

\* C14 - Join before merge: while a scan is pending the chain is still at
\* the join, nothing has been merged, recorded or registered and no call has
\* been made; the merged list is only ever built from three resolved scans.
C14_JoinBeforeMerge ==
    /\ ~AllSettled =>
          /\ pc \in {"start", "scanning"}
          /\ extensions = <<>>
          /\ messages = <<>>
          /\ registered = <<>>
          /\ log = <<>>
    /\ extensions # <<>> =>
          \A src \in SourceSet : scans[src].status = "resolved"

\* two scans have resolved with descriptors, the third is pending: nothing
\* is merged
C14_Witness ==
    /\ pc = "scanning"
    /\ scans["builtin"].status = "resolved" /\ Len(scans["builtin"].plugins) = 1
    /\ scans["development"].status = "resolved" /\ Len(scans["development"].plugins) = 1
    /\ scans["user"].status = "pending"
    /\ extensions = <<>>

\* C15 - Join before dispatch: a 'workspaceContains:' event has been
\* dispatched only when every probe issued has completed.
C15_JoinBeforeDispatch ==
    (\E i \in 1..Len(activations) : activations[i].event # "*") =>
        /\ probes # <<>>
        /\ \A j \in 1..Len(probes) : probes[j].status = "done"

\* the second probe has found its path while the first is pending: only '*'
\* has been dispatched
C15_Witness ==
    /\ pc = "probing"
    /\ Len(probes) = 2
    /\ probes[1].status = "pending"
    /\ probes[2].status = "done" /\ probes[2].exists /\ probes[2].fileName # ""
    /\ Len(activations) = 1

-----------------------------------------------------------------------------
(* Activations are not waited for *)

PendingActivations ==
    { i \in 1..Len(activations) : activations[i].status = "pending" }

\* C16 - Activations are not joined: whenever eager handling has resolved,
\* handlePluginTests can run at once, whatever the activateByEvent calls have
\* done, and while an activation is pending the chain of start() always has
\* a step it can take without that activation completing.
C16_ActivationsNotJoined ==
    /\ pc = "tests" => ENABLED HandlePluginTests
    /\ (pc # "done" /\ PendingActivations # {}) => ENABLED ChainNext

\* start() has resolved while '*' and two more activations are all pending
C16_Witness ==
    /\ pc = "done"
    /\ startResult = "resolved"
    /\ Len(activations) = 3
    /\ PendingActivations = {1, 2, 3}

-----------------------------------------------------------------------------
(* The merge leaves the descriptors as they are *)

\* two descriptors agree on every field: id, folder and activation events
SameFields(a, b) ==
    /\ a.id = b.id
    /\ a.extensionFolderPath = b.extensionFolderPath
    /\ HasEvents(a) <=> HasEvents(b)
    /\ HasEvents(a) /\ HasEvents(b) => a.activationEvents = b.activationEvents

\* C17 - The merge leaves descriptors unchanged: every descriptor of the
\* merged result has the id, the folder path and the activation events of one
\* of the scanned descriptors, and where it replaced a descriptor of its id
\* it holds exactly the events it was scanned with, none of the replaced one.
C17_DescriptorsUnchanged ==
    MergeDone =>
        \A i \in 1..Len(extensions) :
            \E k \in 1..Len(AllScanned) :
                /\ SameFields(extensions[i], AllScanned[k])
                /\ DOMAIN extensions[i] = DOMAIN AllScanned[k]

\* the merged result holds a descriptor that replaced one of its id whose
\* activation events it does not declare: a development descriptor
\* declaring only '*' in the place of a builtin one declaring a file
C17_Witness ==
    /\ MergeDone
    /\ \E k \in 1..Len(AllScanned) :
          /\ HitsExisting(k)
          /\ IsDevelopment(k)
          /\ AllScanned[k] \in Range(extensions)
          /\ HasEvents(AllScanned[k])
          /\ AllScanned[k].activationEvents = <<"*">>
          /\ HasEvents(Replaced(k))
          /\ Replaced(k).activationEvents = <<"workspaceContains:x">>

-----------------------------------------------------------------------------
(* The order of registration and activation *)

\* the callback of lines 126-130 has run
RegistrationDone == pc \notin {"start", "scanning", "register"}

\* C18 - Startup ordering: registerPlugins is called once and registrationDone
\* once after it, with the messages the collector holds, and no call of
\* activateByEvent is made before both; after a failed scan the list
\* registered is empty and the messages hold an error.
C18_StartupOrdering ==
    /\ LogCount("registerPlugins") <= 1
    /\ LogCount("registrationDone") <= 1
    /\ ~RegistrationDone =>
          /\ log = <<>>
          /\ activations = <<>>
          /\ registered = <<>>
          /\ doneCalls = <<>>
    /\ RegistrationDone =>
          /\ Len(log) >= 2
          /\ log[1] = "registerPlugins"
          /\ log[2] = "registrationDone"
          /\ LogCount("registerPlugins") = 1
          /\ LogCount("registrationDone") = 1
          /\ Len(registered) = 1
          /\ Len(doneCalls) = 1
          /\ doneCalls[1] = messages
          /\ \A i \in 1..Len(log) : IsActivateCall(log[i]) => i > 2
          /\ AllResolved => registered[1] = extensions
          /\ ~AllResolved =>
                /\ registered[1] = <<>>
                /\ \E i \in 1..Len(doneCalls[1]) : doneCalls[1][i].type = "error"

\* a start whose scan step failed has come to its end: both registration calls
\* were made, then '*' was dispatched
C18_Witness ==
    /\ pc = "done"
    /\ ~AllResolved
    /\ log = <<"registerPlugins", "registrationDone", ActivateCall("*")>>
    /\ registered = << <<>> >>

-----------------------------------------------------------------------------
(* The extension tests and the exit of the host *)

\* handlePluginTests has been called
TestStepCalled == env.pluginTestsPath # "unread"

\* the negation of the condition of line 222
TestsConfigured ==
    env.pluginTestsPath = "set" /\ env.pluginDevelopmentPath = "set"

\* the exit code the callback of the runner's i-th completion asks for
ReportedCode(i) == IF testRunner.calls[i].failures > 0 THEN 1 ELSE 0

\* C19 - Extension-test shutdown: handlePluginTests is called only once eager
\* handling has resolved; unless both paths are configured no runner is loaded
\* and no exit is scheduled; a runner that cannot be loaded or has no run
\* function schedules one exit with code 1 and rejects start(); a runner that
\* runs schedules one exit per completion, with code 1 if it reports
\* failures > 0 and code 0 otherwise, and start() rejects exactly if it
\* reports an error.
C19_TestShutdown ==
    /\ TestStepCalled =>
          /\ pc \in {"testing", "done"}
          /\ Calls("*") = 1
          /\ workspace # "unread"
          /\ \A i \in 1..Len(probes) : probes[i].status = "done"
    /\ ~(TestStepCalled /\ TestsConfigured) =>
          /\ exits = <<>>
          /\ testRunner = [loaded |-> "unread", calls |-> <<>>]
    /\ (TestStepCalled /\ ~TestsConfigured) =>
          /\ pc = "done"
          /\ startResult = "resolved"
    /\ (TestStepCalled /\ TestsConfigured) =>
          /\ testRunner.loaded \in {"throws", "invalid", "valid"}
          /\ testRunner.loaded \in {"throws", "invalid"} =>
                /\ testRunner.calls = <<>>
                /\ exits = <<1>>
                /\ startResult = "rejected"
                /\ pc = "done"
          /\ testRunner.loaded = "valid" =>
                /\ Len(exits) = Len(testRunner.calls)
                /\ \A i \in 1..Len(exits) : exits[i] = ReportedCode(i)
                /\ pc = "testing" <=> testRunner.calls = <<>>
                /\ pc = "done" =>
                      startResult = IF testRunner.calls[1].error
                                    THEN "rejected" ELSE "resolved"

\* the runner has reported an error and no failure: start() is rejected and
\* the exit scheduled has code 0
C19_Witness ==
    /\ pc = "done"
    /\ testRunner.loaded = "valid"
    /\ testRunner.calls = <<[error |-> TRUE, failures |-> 0]>>
    /\ startResult = "rejected"
    /\ exits = <<0>>

====
